---- MODULE Spec2Model ----
(***************************************************************************)
(* ValutaTrade Hub: the exchange-rate cache (core/utils.py) and the JSON   *)
(* store behind it (infra/database.py).                                    *)
(*                                                                         *)
(* Part I models the resolver get_exchange_rate and the refresh cycle      *)
(* update_rates over the rates snapshot.  Part II models DatabaseManager   *)
(* and load_json / save_json at the level of single file operations, with  *)
(* several threads.  Part III models the accounts (core/usecase.py:        *)
(* register, login, buy) over the users and portfolios files, and Part IV  *)
(* one Wallet object (core/models.py).                                     *)
(*                                                                         *)
(* Time is in seconds.  A rate is a rational [num, den], so that 1 / rate  *)
(* is computed and not assumed.  The clock does not advance while one      *)
(* get_exchange_rate call is running.                                      *)
(***************************************************************************)
EXTENDS Integers, Sequences, FiniteSets, TLC

VARIABLES
    file,           \* the rates cache file: [status, snap]
    now,            \* the clock, seconds
    pc,             \* position of the running get_exchange_rate call
    from_currency,  \* its arguments, after upper()
    to_currency,
    rates,          \* its local snapshot (storage.load_rates())
    found,          \* <<>> or <<[rate, updated_at]>>: what find_rate returned
    result,         \* [kind, value] of the finished call
    refreshes,      \* update_rates() calls made by the running call
    lookups,        \* find_rate() calls made by the running call
    loads,          \* storage.load_rates() calls made by the running call
    entry,          \* the file as it was when the call started
    trig,           \* the trigger sites that fired in the running call
    args,           \* the arguments of the running call as they were passed
    cycle           \* <<>> or <<the refresh cycle the last step ran>>

resolverVars == <<file, now, pc, from_currency, to_currency, rates, found,
                  result, refreshes, lookups, loads, entry, trig, args, cycle>>

VARIABLES
    disk,           \* the JSON file behind the store: [exists, text]
    lock,           \* DatabaseManager._lock: 0 when free, else the holding thread
    instance,       \* DatabaseManager._instance: 0 for None, else the object
    constructed,    \* how many DatabaseManager objects were ever created
    th,             \* per thread: the load_json / save_json call it is running
    pristine        \* a load that no other call overlapped created the file,
                    \* and save_json was not called since

storeVars == <<disk, lock, instance, constructed, th, pristine>>

VARIABLES
    users_file,         \* the users file: a list of user records
    portfolios_file,    \* the portfolios file: a list of [user_id, wallets]
    current_user,       \* usecase._current_user: <<>> for None, else <<user>>
    current_portfolio,  \* usecase._current_portfolio: <<>> or <<[user_id, wallets]>>
    acct                \* the last register / login / buy call: its arguments,
                        \* its error ("" when it returned) and the state before it

accountVars == <<users_file, portfolios_file, current_user, current_portfolio, acct>>

VARIABLES
    wallet,             \* a Wallet object: its balance
    wop                 \* the last operation on it: [op, amount, err, before]

walletVars == <<wallet, wop>>

\* What the steps of one part leave alone.
outsideResolver == <<storeVars, accountVars, walletVars>>
outsideStore == <<resolverVars, accountVars, walletVars>>
outsideAccounts == <<resolverVars, storeVars, walletVars>>
outsideWallet == <<resolverVars, storeVars, accountVars>>

-----------------------------------------------------------------------------
(* Bounds of the model *)

\* How many one-second steps and how many (TTL - 1)-second steps the clock takes.
MaxSmallTicks == 2
MaxBigTicks == 1
\* The longest list a thread saves.
MaxItems == 2
\* The most records the users file grows to.
MaxUsers == 2
\* The largest amount a buy asks for.
MaxBuy == 2
\* The largest amount passed to a Wallet operation, and the largest balance.
MaxAmount == 4
MaxBalance == 8

(* Program constants *)

\* SettingsLoader().get("RATES_TTL_SECONDS", 3600)
RATES_TTL_SECONDS == 3600

-----------------------------------------------------------------------------
(* Values *)

Codes == {"BTC", "USD", "EUR"}
\* What a caller may pass: codes in either case.
Inputs == Codes \cup {"btc"}

\* Mutant of Upper: the arguments are compared as passed.
UpperIdentity(s) == s

\* str.upper() on the inputs.
Upper(s) ==
    CASE s = "btc" -> "BTC"
      [] s = "usd" -> "USD"
      [] s = "eur" -> "EUR"
      [] OTHER -> s

\* The values the providers may quote.
Quotes == {2, 4}
Rat(n) == [num |-> n, den |-> 1]
One == [num |-> 1, den |-> 1]
\* 1 / rate
Inverse(r) == [num |-> r.den, den |-> r.num]

\* f"{a}_{b}"
Key(a, b) == a \o "_" \o b

EmptySnapshot == [pairs |-> <<>>, last_refresh |-> <<>>]
MissingFile == [status |-> "missing", snap |-> EmptySnapshot]
CorruptFile == [status |-> "corrupt", snap |-> EmptySnapshot]
\* A snapshot written by hand or by an older version: a pair, no last_refresh.
LegacyFile ==
    [status |-> "ok",
     snap |-> [pairs |-> [k \in {"BTC_USD"} |-> [rate |-> Rat(2), updated_at |-> 0]],
               last_refresh |-> <<>>]]

\* g's entries over f's.
Merge(f, g) ==
    [k \in DOMAIN f \cup DOMAIN g |-> IF k \in DOMAIN g THEN g[k] ELSE f[k]]

-----------------------------------------------------------------------------
(* parser_service: the clients, the storage and the updater *)

\* The pair keys each provider may report.
ClientKeys(c) ==
    IF c = "coingecko" THEN {"BTC_USD"} ELSE {"EUR_USD", "BTC_USD"}

\* The values each provider may quote in this model.
ClientQuotes(c) ==
    IF c = "coingecko" THEN Quotes ELSE {4}

\* One fetch(): SourceUnavailable, or observations key -> quote.
Fetches(c) ==
    {[ok |-> FALSE, obs |-> <<>>]} \cup
    {[ok |-> TRUE, obs |-> f] :
        f \in UNION {[K -> ClientQuotes(c)] : K \in SUBSET ClientKeys(c)}}

ClientNames == {"coingecko", "exchangerate"}
Outcomes == [ClientNames -> UNION {Fetches(c) : c \in ClientNames}]
CycleOutcomes == {o \in Outcomes : \A c \in ClientNames : o[c] \in Fetches(c)}

\* RatesStorage.load_rates(): no file or an unreadable one reads as an empty
\* snapshot; a missing file is created.
LoadRates(f) ==
    IF f.status = "ok" THEN [snap |-> f.snap, file |-> f]
    ELSE IF f.status = "missing"
         THEN [snap |-> EmptySnapshot,
               file |-> [status |-> "ok", snap |-> EmptySnapshot]]
         ELSE [snap |-> EmptySnapshot, file |-> f]

\* The observations of the clients that answered, merged in the clients' order.
RECURSIVE Observed(_, _)
Observed(clients, outs) ==
    IF clients = <<>> THEN <<>>
    ELSE LET c == clients[Len(clients)]
             before == Observed(SubSeq(clients, 1, Len(clients) - 1), outs)
         IN IF outs[c].ok THEN Merge(before, outs[c].obs) ELSE before

\* RatesUpdater.run_update(): fetch every client, skip the ones that fail, merge
\* what was observed into the stored snapshot, stamp last_refresh, save; returns
\* how many pairs were updated.  With nothing observed nothing is written.
RunUpdate(clients, f, t, outs) ==
    LET obs == Observed(clients, outs)
        old == LoadRates(f).snap
        new == [k \in DOMAIN obs |-> [rate |-> Rat(obs[k]), updated_at |-> t]]
    IN IF DOMAIN obs = {}
       THEN [cnt |-> 0, file |-> f]
       ELSE [cnt |-> Cardinality(DOMAIN obs),
             file |-> [status |-> "ok",
                       snap |-> [pairs |-> Merge(old.pairs, new),
                                 last_refresh |-> <<t>>]]]

-----------------------------------------------------------------------------
(* core/utils.py *)

\* The source filters a caller may pass; "none" is Python's None.
Sources == {"none", "coingecko", "exchangerate", "binance"}

\* Mutant of Clients: without a filter only the first client is run.
ClientsFirstOnly(source) ==
    IF source = "exchangerate" THEN <<"exchangerate">> ELSE <<"coingecko">>

\* Mutant of Clients: without a filter the fiat-rate client comes first.
ClientsFiatFirst(source) ==
    IF source = "coingecko" THEN <<"coingecko">>
    ELSE IF source = "exchangerate" THEN <<"exchangerate">>
    ELSE <<"exchangerate", "coingecko">>

\* update_rates: the clients a source filter selects.
Clients(source) ==
    IF source = "coingecko" THEN <<"coingecko">>
    ELSE IF source = "exchangerate" THEN <<"exchangerate">>
    ELSE <<"coingecko", "exchangerate">>

\* Mutant of UpdateRates: a cycle that updated nothing is not reported.
UpdateRatesSilent(source, f, t, outs) ==
    [raised |-> FALSE, file |-> RunUpdate(Clients(source), f, t, outs).file]

\* Mutant of UpdateRates: the cycle starts from an empty snapshot and not from
\* the stored one.
UpdateRatesFromScratch(source, f, t, outs) ==
    LET r == RunUpdate(Clients(source), [status |-> "ok", snap |-> EmptySnapshot], t, outs)
    IN [raised |-> r.cnt = 0, file |-> IF r.cnt = 0 THEN f ELSE r.file]

\* update_rates(source): raises ApiRequestError when the cycle updated nothing.
UpdateRates(source, f, t, outs) ==
    LET r == RunUpdate(Clients(source), f, t, outs)
    IN [raised |-> r.cnt = 0, file |-> r.file]

\* Mutant of FindRate: the reverse record is returned without inverting its rate.
FindRateNoInverse(r, a, b) ==
    IF Key(a, b) \in DOMAIN r.pairs
    THEN <<[rate |-> r.pairs[Key(a, b)].rate,
            updated_at |-> r.pairs[Key(a, b)].updated_at]>>
    ELSE IF Key(b, a) \in DOMAIN r.pairs
    THEN <<[rate |-> r.pairs[Key(b, a)].rate,
            updated_at |-> r.pairs[Key(b, a)].updated_at]>>
    ELSE <<>>

\* find_rate(rates, a, b): the direct key, else the reverse key inverted, else
\* RateNotFoundError (<<>>).
FindRate(r, a, b) ==
    IF Key(a, b) \in DOMAIN r.pairs
    THEN <<[rate |-> r.pairs[Key(a, b)].rate,
            updated_at |-> r.pairs[Key(a, b)].updated_at]>>
    ELSE IF Key(b, a) \in DOMAIN r.pairs
    THEN <<[rate |-> Inverse(r.pairs[Key(b, a)].rate),
            updated_at |-> r.pairs[Key(b, a)].updated_at]>>
    ELSE <<>>

\* Mutant of Unusable: only a snapshot with no pairs counts as empty.
UnusableOnlyEmpty(r) == DOMAIN r.pairs = {}

\* not rates or "last_refresh" not in rates
Unusable(r) ==
    (DOMAIN r.pairs = {} /\ r.last_refresh = <<>>) \/ r.last_refresh = <<>>

\* Mutant of Expired: a record aged exactly the TTL counts as stale.
ExpiredAtTtl(rec, t) == t - rec.updated_at >= RATES_TTL_SECONDS

\* (now - updated_at).total_seconds() > ttl
Expired(rec, t) == t - rec.updated_at > RATES_TTL_SECONDS

NoResult == [kind |-> "none", value |-> <<>>]
Raise(e) == [kind |-> e, value |-> <<>>]
Return(rec) == [kind |-> "ok", value |-> <<rec>>]

Idle ==
    /\ pc = "idle" /\ from_currency = "" /\ to_currency = ""
    /\ rates = EmptySnapshot /\ found = <<>> /\ result = NoResult
    /\ refreshes = 0 /\ lookups = 0 /\ loads = 0 /\ trig = {}
    /\ args = <<>> /\ cycle = <<>>

\* What one update_rates(source) call did: the clients' answers, the file before
\* it, and whether it raised.
Cycle(source, f, outs) ==
    <<[source |-> source, outs |-> outs, before |-> f,
       raised |-> UpdateRates(source, f, now, outs).raised]>>

ResolverInit ==
    /\ file \in {MissingFile, CorruptFile, LegacyFile}
    /\ now = 0
    /\ entry = file
    /\ Idle

\* get_exchange_rate, lines 71-76: upper(), the identity case, the first load.
Call(a, b) ==
    /\ UNCHANGED outsideResolver
    /\ pc = "idle"
    /\ from_currency' = Upper(a)
    /\ to_currency' = Upper(b)
    /\ entry' = file
    /\ args' = <<a, b>>
    /\ cycle' = <<>>
    /\ IF Upper(a) = Upper(b)
       THEN /\ result' = Return([rate |-> One, updated_at |-> now])
            /\ pc' = "done"
            /\ UNCHANGED <<file, rates, loads>>
       ELSE /\ rates' = LoadRates(file).snap
            /\ file' = LoadRates(file).file
            /\ loads' = loads + 1
            /\ pc' = "loaded"
            /\ UNCHANGED result
    /\ UNCHANGED <<now, found, refreshes, lookups, trig>>

\* usecase.update_rates(source): one refresh cycle, then the count of stored pairs.
UpdateRatesCommand(source, outs) ==
    /\ UNCHANGED outsideResolver
    /\ pc = "idle"
    /\ pc' = "done"
    /\ entry' = file
    /\ args' = <<source>>
    /\ cycle' = Cycle(source, file, outs)
    /\ refreshes' = refreshes + 1
    /\ LET u == UpdateRates(source, file, now, outs)
       IN IF u.raised
          THEN /\ result' = [kind |-> "update_failed", value |-> <<>>]
               /\ file' = u.file
               /\ UNCHANGED <<rates, loads>>
          ELSE /\ file' = LoadRates(u.file).file
               /\ rates' = LoadRates(u.file).snap
               /\ loads' = loads + 1
               /\ result' = [kind |-> "updated",
                             value |-> <<Cardinality(DOMAIN LoadRates(u.file).snap.pairs)>>]
    /\ UNCHANGED <<now, from_currency, to_currency, found, lookups, trig>>

\* The lookup that follows a load: lines 83-85.
FirstLookup(r) ==
    /\ lookups' = lookups + 1
    /\ found' = FindRate(r, from_currency, to_currency)
    /\ pc' = IF FindRate(r, from_currency, to_currency) = <<>> THEN "miss" ELSE "ttl"

\* Lines 77-84 with an unusable snapshot: refresh, reload, look up.
InitialRefresh(outs) ==
    /\ UNCHANGED outsideResolver
    /\ pc = "loaded"
    /\ Unusable(rates)
    /\ refreshes' = refreshes + 1
    /\ trig' = trig \cup {"empty"}
    /\ cycle' = Cycle("none", file, outs)
    /\ LET u == UpdateRates("none", file, now, outs)
       IN IF u.raised
          THEN /\ result' = Raise("ApiRequestError")
               /\ pc' = "done"
               /\ file' = u.file
               /\ UNCHANGED <<rates, found, lookups, loads>>
          ELSE /\ file' = LoadRates(u.file).file
               /\ rates' = LoadRates(u.file).snap
               /\ loads' = loads + 1
               /\ FirstLookup(LoadRates(u.file).snap)
               /\ UNCHANGED result
    /\ UNCHANGED <<now, from_currency, to_currency, entry, args>>

\* Lines 77, 83-84 with a usable snapshot: look up.
Lookup ==
    /\ UNCHANGED outsideResolver
    /\ pc = "loaded"
    /\ ~Unusable(rates)
    /\ FirstLookup(rates)
    /\ cycle' = <<>>
    /\ UNCHANGED <<file, now, from_currency, to_currency, rates, result,
                   refreshes, loads, entry, trig, args>>

\* Mutant of MissRefresh: a pair still missing after the refresh is retried.
MissRefreshAgain(outs) ==
    /\ UNCHANGED outsideResolver
    /\ pc = "miss"
    /\ refreshes < 3
    /\ refreshes' = refreshes + 1
    /\ trig' = trig \cup {"miss"}
    /\ cycle' = Cycle("none", file, outs)
    /\ LET u == UpdateRates("none", file, now, outs)
       IN IF u.raised
          THEN /\ result' = Raise("ApiRequestError")
               /\ pc' = "done"
               /\ file' = u.file
               /\ UNCHANGED <<rates, found, lookups, loads>>
          ELSE /\ file' = LoadRates(u.file).file
               /\ rates' = LoadRates(u.file).snap
               /\ loads' = loads + 1
               /\ lookups' = lookups + 1
               /\ found' = FindRate(LoadRates(u.file).snap, from_currency, to_currency)
               /\ pc' = IF FindRate(LoadRates(u.file).snap, from_currency, to_currency) = <<>>
                        THEN "miss" ELSE "ttl"
               /\ UNCHANGED result
    /\ UNCHANGED <<now, from_currency, to_currency, entry, args>>

\* Lines 85-89: the pair was not found: refresh, reload, look up again.
MissRefresh(outs) ==
    /\ UNCHANGED outsideResolver
    /\ pc = "miss"
    /\ refreshes' = refreshes + 1
    /\ trig' = trig \cup {"miss"}
    /\ cycle' = Cycle("none", file, outs)
    /\ LET u == UpdateRates("none", file, now, outs)
       IN IF u.raised
          THEN /\ result' = Raise("ApiRequestError")
               /\ pc' = "done"
               /\ file' = u.file
               /\ UNCHANGED <<rates, found, lookups, loads>>
          ELSE /\ file' = LoadRates(u.file).file
               /\ rates' = LoadRates(u.file).snap
               /\ loads' = loads + 1
               /\ lookups' = lookups + 1
               /\ found' = FindRate(LoadRates(u.file).snap, from_currency, to_currency)
               /\ IF FindRate(LoadRates(u.file).snap, from_currency, to_currency) = <<>>
                  THEN /\ result' = Raise("RateNotFoundError")
                       /\ pc' = "done"
                  ELSE /\ pc' = "ttl"
                       /\ UNCHANGED result
    /\ UNCHANGED <<now, from_currency, to_currency, entry, args>>

\* Lines 91-92 and 97: the record is young enough: return it.
Fresh ==
    /\ UNCHANGED outsideResolver
    /\ pc = "ttl"
    /\ ~Expired(found[1], now)
    /\ result' = Return(found[1])
    /\ pc' = "done"
    /\ cycle' = <<>>
    /\ UNCHANGED <<file, now, from_currency, to_currency, rates, found,
                   refreshes, lookups, loads, entry, trig, args>>

\* Mutant of StaleRefresh: when the refresh fails the stale record is returned.
StaleRefreshFallback(outs) ==
    /\ UNCHANGED outsideResolver
    /\ pc = "ttl"
    /\ Expired(found[1], now)
    /\ refreshes' = refreshes + 1
    /\ trig' = trig \cup {"ttl"}
    /\ pc' = "done"
    /\ cycle' = Cycle("none", file, outs)
    /\ LET u == UpdateRates("none", file, now, outs)
       IN IF u.raised
          THEN /\ result' = Return(found[1])
               /\ file' = u.file
               /\ UNCHANGED <<rates, found, lookups, loads>>
          ELSE /\ file' = LoadRates(u.file).file
               /\ rates' = LoadRates(u.file).snap
               /\ loads' = loads + 1
               /\ lookups' = lookups + 1
               /\ found' = FindRate(LoadRates(u.file).snap, from_currency, to_currency)
               /\ result' =
                    IF FindRate(LoadRates(u.file).snap, from_currency, to_currency) = <<>>
                    THEN Raise("RateNotFoundError")
                    ELSE Return(FindRate(LoadRates(u.file).snap,
                                         from_currency, to_currency)[1])
    /\ UNCHANGED <<now, from_currency, to_currency, entry, args>>

\* Lines 92-97: the record is older than the TTL: refresh, reload, look up, return.
StaleRefresh(outs) ==
    /\ UNCHANGED outsideResolver
    /\ pc = "ttl"
    /\ Expired(found[1], now)
    /\ refreshes' = refreshes + 1
    /\ trig' = trig \cup {"ttl"}
    /\ pc' = "done"
    /\ cycle' = Cycle("none", file, outs)
    /\ LET u == UpdateRates("none", file, now, outs)
       IN IF u.raised
          THEN /\ result' = Raise("ApiRequestError")
               /\ file' = u.file
               /\ UNCHANGED <<rates, found, lookups, loads>>
          ELSE /\ file' = LoadRates(u.file).file
               /\ rates' = LoadRates(u.file).snap
               /\ loads' = loads + 1
               /\ lookups' = lookups + 1
               /\ found' = FindRate(LoadRates(u.file).snap, from_currency, to_currency)
               /\ result' =
                    IF FindRate(LoadRates(u.file).snap, from_currency, to_currency) = <<>>
                    THEN Raise("RateNotFoundError")
                    ELSE Return(FindRate(LoadRates(u.file).snap,
                                         from_currency, to_currency)[1])
    /\ UNCHANGED <<now, from_currency, to_currency, entry, args>>

\* The call is over: its frame is dropped.
Finish ==
    /\ UNCHANGED outsideResolver
    /\ pc = "done"
    /\ pc' = "idle" /\ from_currency' = "" /\ to_currency' = ""
    /\ rates' = EmptySnapshot /\ found' = <<>> /\ result' = NoResult
    /\ refreshes' = 0 /\ lookups' = 0 /\ loads' = 0 /\ trig' = {}
    /\ args' = <<>> /\ cycle' = <<>>
    /\ entry' = file
    /\ UNCHANGED <<file, now>>

\* A second passes.
TickSecond ==
    /\ UNCHANGED outsideResolver
    /\ pc = "idle"
    /\ now % (RATES_TTL_SECONDS - 1) < MaxSmallTicks
    /\ now' = now + 1
    /\ UNCHANGED <<file, pc, from_currency, to_currency, rates, found, result,
                   refreshes, lookups, loads, entry, trig, args, cycle>>

\* One second less than the TTL passes.
TickAlmostTtl ==
    /\ UNCHANGED outsideResolver
    /\ pc = "idle"
    /\ now \div (RATES_TTL_SECONDS - 1) < MaxBigTicks
    /\ now' = now + (RATES_TTL_SECONDS - 1)
    /\ UNCHANGED <<file, pc, from_currency, to_currency, rates, found, result,
                   refreshes, lookups, loads, entry, trig, args, cycle>>

ResolverNext ==
    \/ \E a \in Inputs, b \in Inputs : Call(a, b)
    \/ \E source \in Sources, outs \in CycleOutcomes : UpdateRatesCommand(source, outs)
    \/ \E outs \in CycleOutcomes : InitialRefresh(outs)
    \/ Lookup
    \/ \E outs \in CycleOutcomes : MissRefresh(outs)
    \/ Fresh
    \/ \E outs \in CycleOutcomes : StaleRefresh(outs)
    \/ Finish
    \/ TickSecond
    \/ TickAlmostTtl

-----------------------------------------------------------------------------
(* infra/database.py and load_json / save_json, thread by thread.            *)
(* A file's text is a sequence of chunks; one chunk stands for what reaches  *)
(* the file in one write.                                                    *)

Threads == {1, 2}

\* The lists a thread may save: [], [1], [1, 2], ...
Data == {[i \in 1..n |-> i] : n \in 0..MaxItems}

OpenBracket == [k |-> "[", v |-> 0]
CloseBracket == [k |-> "]", v |-> 0]
EmptyList == [k |-> "[]", v |-> 0]
Hole == [k |-> "nul", v |-> 0]
Item(i) == [k |-> "item", v |-> i]

\* json.dump(data, f): the chunks it writes, in order.
Dump(d) ==
    IF d = <<>> THEN <<EmptyList>>
    ELSE <<OpenBracket>> \o [i \in 1..Len(d) |-> Item(d[i])] \o <<CloseBracket>>

\* json.load(f): the list a complete document holds, else JSONDecodeError.
Parse(text) ==
    IF text = <<EmptyList>> THEN [kind |-> "ok", value |-> <<<<>>>>]
    ELSE IF /\ Len(text) >= 3
            /\ text[1] = OpenBracket
            /\ text[Len(text)] = CloseBracket
            /\ \A i \in 2..(Len(text) - 1) : text[i].k = "item"
         THEN [kind |-> "ok",
               value |-> <<[i \in 1..(Len(text) - 2) |-> text[i + 1].v]>>]
         ELSE [kind |-> "JSONDecodeError", value |-> <<>>]

\* One write of chunk c at offset pos of a file opened for writing: it
\* overwrites what is there, and past the end the gap reads as NUL.
WriteAt(text, pos, c) ==
    IF pos < Len(text)
    THEN [text EXCEPT ![pos + 1] = c]
    ELSE text \o [i \in 1..(pos - Len(text)) |-> Hole] \o <<c>>

NoDisk == [exists |-> FALSE, text |-> <<>>]

IdleThread ==
    [pc |-> "idle", op |-> "", data |-> <<>>, pos |-> 0, res |-> NoResult,
     creating |-> FALSE, solo |-> FALSE, inst |-> 0]

StoreInit ==
    /\ disk = NoDisk
    /\ lock = 0
    /\ instance = 0
    /\ constructed = 0
    /\ th = [t \in Threads |-> IdleThread]
    /\ pristine = FALSE

\* Thread t starts call c: it runs alone if no other call is running, and the
\* calls that are running do not run alone any more.
Started(t, c) ==
    [u \in Threads |->
        IF u = t THEN [c EXCEPT !.solo = \A w \in Threads \ {t} : th[w].pc = "idle"]
        ELSE [th[u] EXCEPT !.solo = FALSE]]

\* load_json(path): calls DatabaseManager().load(path).
BeginLoadJson(t) ==
    /\ th[t].pc = "idle"
    /\ th' = Started(t, [th[t] EXCEPT !.pc = "new", !.op = "load_json"])
    /\ UNCHANGED <<disk, lock, instance, constructed>>
    /\ UNCHANGED pristine
    /\ UNCHANGED outsideStore

\* save_json(path, data): calls DatabaseManager().save(path, data).
BeginSaveJson(t, d) ==
    /\ th[t].pc = "idle"
    /\ th' = Started(t, [th[t] EXCEPT !.pc = "new", !.op = "save_json", !.data = d])
    /\ pristine' = FALSE
    /\ UNCHANGED <<disk, lock, instance, constructed>>
    /\ UNCHANGED outsideStore

\* Mutant of NewEnter: the with block is entered without waiting for the lock.
NewEnterNoLock(t) ==
    /\ th[t].pc = "new"
    /\ lock' = t
    /\ th' = [th EXCEPT ![t].pc = "locked"]
    /\ UNCHANGED <<disk, instance, constructed>>
    /\ UNCHANGED pristine
    /\ UNCHANGED outsideStore

\* DatabaseManager.__new__, line 12: with cls._lock.
NewEnter(t) ==
    /\ th[t].pc = "new"
    /\ lock = 0
    /\ lock' = t
    /\ th' = [th EXCEPT ![t].pc = "locked"]
    /\ UNCHANGED <<disk, instance, constructed>>
    /\ UNCHANGED pristine
    /\ UNCHANGED outsideStore

\* DatabaseManager.__new__, line 13: if cls._instance is None.
NewCheck(t) ==
    /\ th[t].pc = "locked"
    /\ th' = [th EXCEPT ![t].pc = IF instance = 0 THEN "create" ELSE "unlock"]
    /\ UNCHANGED <<disk, lock, instance, constructed>>
    /\ UNCHANGED pristine
    /\ UNCHANGED outsideStore

\* DatabaseManager.__new__, line 14: cls._instance = super().__new__(cls).
NewCreate(t) ==
    /\ th[t].pc = "create"
    /\ instance' = constructed + 1
    /\ constructed' = constructed + 1
    /\ th' = [th EXCEPT ![t].pc = "unlock"]
    /\ UNCHANGED <<disk, lock>>
    /\ UNCHANGED pristine
    /\ UNCHANGED outsideStore

\* DatabaseManager.__new__, lines 12 and 15: leave the with block and return
\* cls._instance; the method called on it comes next.
NewExit(t) ==
    /\ th[t].pc = "unlock"
    /\ lock = t
    /\ lock' = 0
    /\ th' = [th EXCEPT ![t].pc = IF th[t].op = "load_json" THEN "load" ELSE "save",
                        ![t].inst = instance]
    /\ UNCHANGED <<disk, instance, constructed>>
    /\ UNCHANGED pristine
    /\ UNCHANGED outsideStore

\* DatabaseManager.load, lines 19-20: no file: self.save(path, []) comes next.
LoadExists(t) ==
    /\ th[t].pc = "load"
    /\ th' = IF disk.exists
             THEN [th EXCEPT ![t].pc = "read"]
             ELSE [th EXCEPT ![t].pc = "save", ![t].data = <<>>, ![t].creating = TRUE]
    /\ UNCHANGED <<disk, lock, instance, constructed>>
    /\ UNCHANGED pristine
    /\ UNCHANGED outsideStore

\* DatabaseManager.load, lines 22-23: open the file and json.load it.
LoadRead(t) ==
    /\ th[t].pc = "read"
    /\ th' = [th EXCEPT ![t].pc = "done", ![t].res = Parse(disk.text)]
    /\ UNCHANGED <<disk, lock, instance, constructed>>
    /\ UNCHANGED pristine
    /\ UNCHANGED outsideStore

\* DatabaseManager.save, lines 27-28: makedirs, open(path, "w") truncates.
SaveOpen(t) ==
    /\ th[t].pc = "save"
    /\ disk' = [exists |-> TRUE, text |-> <<>>]
    /\ th' = [th EXCEPT ![t].pc = "write", ![t].pos = 0]
    /\ UNCHANGED <<lock, instance, constructed>>
    /\ UNCHANGED pristine
    /\ UNCHANGED outsideStore

\* DatabaseManager.save, line 29: json.dump writes its next chunk.
SaveWrite(t) ==
    /\ th[t].pc = "write"
    /\ th[t].pos < Len(Dump(th[t].data))
    /\ disk' = [disk EXCEPT !.text = WriteAt(disk.text, th[t].pos,
                                             Dump(th[t].data)[th[t].pos + 1])]
    /\ th' = [th EXCEPT ![t].pos = th[t].pos + 1]
    /\ UNCHANGED <<lock, instance, constructed>>
    /\ UNCHANGED pristine
    /\ UNCHANGED outsideStore


\* DatabaseManager.save, line 29: a write fails (OSError) and the with block
\* closes the file as it is.
SaveFail(t) ==
    /\ th[t].pc = "write"
    /\ th[t].pos < Len(Dump(th[t].data))
    /\ th' = [th EXCEPT ![t].pc = "done", ![t].res = Raise("OSError")]
    /\ UNCHANGED <<disk, lock, instance, constructed>>
    /\ UNCHANGED pristine
    /\ UNCHANGED outsideStore

\* DatabaseManager.save returns; inside load (line 21) FileNotFoundError follows.
SaveClose(t) ==
    /\ th[t].pc = "write"
    /\ th[t].pos = Len(Dump(th[t].data))
    /\ th' = IF th[t].creating
             THEN [th EXCEPT ![t].pc = "raised", ![t].res = Raise("FileNotFoundError")]
             ELSE [th EXCEPT ![t].pc = "done",
                             ![t].res = [kind |-> "saved", value |-> <<>>]]
    /\ UNCHANGED <<disk, lock, instance, constructed>>
    /\ UNCHANGED pristine
    /\ UNCHANGED outsideStore

\* Mutant of LoadJsonCatch: the FileNotFoundError of load reaches the caller.
LoadJsonNoCatch(t) ==
    /\ th[t].pc = "raised"
    /\ th' = [th EXCEPT ![t].pc = "done"]
    /\ UNCHANGED <<disk, lock, instance, constructed>>
    /\ UNCHANGED pristine
    /\ UNCHANGED outsideStore

\* load_json, lines 23-24: except FileNotFoundError: return [].
LoadJsonCatch(t) ==
    /\ th[t].pc = "raised"
    /\ th' = [th EXCEPT ![t].pc = "done",
                        ![t].res = [kind |-> "ok", value |-> <<<<>>>>]]
    /\ UNCHANGED <<disk, lock, instance, constructed>>
    /\ UNCHANGED pristine
    /\ UNCHANGED outsideStore

\* The call is over.
ThreadReturn(t) ==
    /\ th[t].pc = "done"
    /\ th' = [th EXCEPT ![t] = IdleThread]
    /\ pristine' = (\/ pristine
                    \/ (th[t].creating /\ th[t].res.kind = "ok" /\ th[t].solo))
    /\ UNCHANGED <<disk, lock, instance, constructed>>
    /\ UNCHANGED outsideStore

StoreStep(t) ==
    \/ BeginLoadJson(t)
    \/ \E d \in Data : BeginSaveJson(t, d)
    \/ NewEnter(t)
    \/ NewCheck(t)
    \/ NewCreate(t)
    \/ NewExit(t)
    \/ LoadExists(t)
    \/ LoadRead(t)
    \/ SaveOpen(t)
    \/ SaveWrite(t)
    \/ SaveFail(t)
    \/ SaveClose(t)
    \/ LoadJsonCatch(t)
    \/ ThreadReturn(t)

-----------------------------------------------------------------------------
(* core/models.py: WalletBalance and Wallet.  An operation yields its error  *)
(* ("" when it returned) and the balance it leaves.                          *)

\* WalletBalance.add
BalanceAdd(balance, amount) ==
    IF amount <= 0 THEN [err |-> "ValueError", balance |-> balance]
    ELSE [err |-> "", balance |-> balance + amount]

\* Mutant of BalanceSubtract: the funds are not compared with the amount.
BalanceSubtractUnchecked(balance, amount) ==
    IF amount <= 0 THEN [err |-> "ValueError", balance |-> balance]
    ELSE [err |-> "", balance |-> balance - amount]

\* WalletBalance.subtract
BalanceSubtract(balance, amount) ==
    IF amount <= 0 THEN [err |-> "ValueError", balance |-> balance]
    ELSE IF amount > balance
         THEN [err |-> "InsufficientFundsError", balance |-> balance]
         ELSE [err |-> "", balance |-> balance - amount]

\* Wallet.deposit
WalletDeposit(balance, amount) ==
    IF amount <= 0 THEN [err |-> "ValueError", balance |-> balance]
    ELSE BalanceAdd(balance, amount)

\* Wallet.withdraw
WalletWithdraw(balance, amount) ==
    IF amount <= 0 THEN [err |-> "ValueError", balance |-> balance]
    ELSE BalanceSubtract(balance, amount)

\* Wallet.balance = value
WalletSetBalance(balance, value) ==
    IF value < 0 THEN [err |-> "ValueError", balance |-> balance]
    ELSE [err |-> "", balance |-> value]

\* The amounts a caller may pass.
Amounts == -1..MaxAmount

NoWalletOp == [op |-> "", amount |-> 0, err |-> "", before |-> 0]

\* Wallet(currency_code): the balance defaults to 0.
NoWallet == wallet = 0 /\ wop = NoWalletOp

Deposit(amount) ==
    /\ wallet + amount <= MaxBalance
    /\ wallet' = WalletDeposit(wallet, amount).balance
    /\ wop' = [op |-> "deposit", amount |-> amount,
               err |-> WalletDeposit(wallet, amount).err, before |-> wallet]
    /\ UNCHANGED outsideWallet

Withdraw(amount) ==
    /\ wallet' = WalletWithdraw(wallet, amount).balance
    /\ wop' = [op |-> "withdraw", amount |-> amount,
               err |-> WalletWithdraw(wallet, amount).err, before |-> wallet]
    /\ UNCHANGED outsideWallet

SetBalance(value) ==
    /\ value <= MaxBalance
    /\ wallet' = WalletSetBalance(wallet, value).balance
    /\ wop' = [op |-> "set", amount |-> value,
               err |-> WalletSetBalance(wallet, value).err, before |-> wallet]
    /\ UNCHANGED outsideWallet

WalletNext ==
    \/ \E amount \in Amounts : Deposit(amount)
    \/ \E amount \in Amounts : Withdraw(amount)
    \/ \E value \in Amounts : SetBalance(value)

-----------------------------------------------------------------------------
(* core/usecase.py: register, login, buy, over the users and the portfolios  *)
(* files.  A call is one step; a save_json that cannot open its file raises  *)
(* OSError and leaves the file as it was.                                    *)

\* SettingsLoader().get("BASE_CURRENCY")
BASE_CURRENCY == "USD"

\* The codes CurrencyRegistry registers.
CurrencyCodes == {"USD", "EUR", "RUB", "GBP", "BTC", "ETH", "SOL"}

\* What a caller may pass as a username, a password, a currency.
Usernames == {"bob", " bob", "eve", ""}
Passwords == {"abc", "pass", "word"}
BuyCodes == {"btc", "USD", "XYZ"}

\* str.strip() on the usernames.
Strip(s) == IF s = " bob" THEN "bob" ELSE s

\* SecurityManager.generate_salt(): the salt a register call draws.
Salts == {"s2"}

\* SecurityManager.hash_password: sha256 of password + salt.
HashPassword(password, salt) == "sha256(" \o password \o salt \o ")"

\* SecurityManager.validate_password_strength raises.
PasswordTooShort(password) == Len(password) < 4

\* next_id(records)
NextId(records) ==
    IF records = <<>> THEN 1
    ELSE (CHOOSE m \in {records[i].user_id : i \in DOMAIN records} :
            \A i \in DOMAIN records : records[i].user_id <= m) + 1

\* User.__init__ with get_user_info(): the record of the new object, or the
\* ValueError of a short password or of an empty username.
NewUser(user_id, username, password, salt) ==
    IF PasswordTooShort(password) \/ Strip(username) = ""
    THEN [err |-> "ValueError", user |-> <<>>]
    ELSE [err |-> "",
          user |-> <<[user_id |-> user_id, username |-> Strip(username),
                      hashed_password |-> HashPassword(password, salt),
                      salt |-> salt]>>]

\* User.verify_password
VerifyPassword(user, password) ==
    user.hashed_password = HashPassword(password, user.salt)

\* next((u_ for u_ in users_data if u_["username"] == username), None): the
\* index of the first match, 0 for None.
UserIndex(users, username) ==
    IF \E i \in DOMAIN users : users[i].username = username
    THEN CHOOSE i \in DOMAIN users :
           /\ users[i].username = username
           /\ \A j \in DOMAIN users : users[j].username = username => i <= j
    ELSE 0

PortfolioIndex(portfolios, user_id) ==
    IF \E i \in DOMAIN portfolios : portfolios[i].user_id = user_id
    THEN CHOOSE i \in DOMAIN portfolios :
           /\ portfolios[i].user_id = user_id
           /\ \A j \in DOMAIN portfolios : portfolios[j].user_id = user_id => i <= j
    ELSE 0

\* Portfolio.load_portfolio(user_id)
LoadPortfolio(portfolios, user_id) ==
    IF PortfolioIndex(portfolios, user_id) = 0
    THEN [user_id |-> user_id, wallets |-> <<>>]
    ELSE [user_id |-> user_id,
          wallets |-> portfolios[PortfolioIndex(portfolios, user_id)].wallets]

\* Portfolio.save_portfolio: the list it passes to save_json.
SavePortfolio(portfolios, p) ==
    IF PortfolioIndex(portfolios, p.user_id) = 0
    THEN Append(portfolios, [user_id |-> p.user_id, wallets |-> p.wallets])
    ELSE [portfolios EXCEPT ![PortfolioIndex(portfolios, p.user_id)].wallets = p.wallets]

\* What get_exchange_rate(currency, base) may do inside buy: return a rate (a
\* whole number of base units here) or raise.
RateOutcomes ==
    {[kind |-> "ok", rate |-> q] : q \in Quotes} \cup
    {[kind |-> "RateNotFoundError", rate |-> 0],
     [kind |-> "ApiRequestError", rate |-> 0]}

\* Whether the save_json calls of one register succeed, and whether the one
\* save_json of a buy does.
SaveOutcomes == {"saved", "first_fails", "second_fails"}
BuySaveOutcomes == {"saved", "first_fails"}

Before ==
    [users_file |-> users_file, portfolios_file |-> portfolios_file,
     current_user |-> current_user, current_portfolio |-> current_portfolio]

NoCall ==
    [op |-> "", username |-> "", password |-> "", currency |-> "", amount |-> 0,
     rate |-> 0, err |-> "", before |-> <<>>]

Called(op, username, password, currency, amount, rate, err) ==
    [op |-> op, username |-> username, password |-> password,
     currency |-> currency, amount |-> amount, rate |-> rate, err |-> err,
     before |-> Before]

\* No user, no portfolio, nobody logged in.
NoAccounts ==
    /\ users_file = <<>> /\ portfolios_file = <<>>
    /\ current_user = <<>> /\ current_portfolio = <<>>
    /\ acct = NoCall

\* The data files as the program finds them: empty, or with one user whose
\* base wallet holds the funds for the largest purchase at the lower quote.
AccountsInit ==
    /\ \/ users_file = <<>> /\ portfolios_file = <<>>
       \/ /\ users_file = <<[user_id |-> 1, username |-> "bob",
                             hashed_password |-> HashPassword("pass", "s1"),
                             salt |-> "s1"]>>
          /\ portfolios_file =
               <<[user_id |-> 1, wallets |-> [c \in {BASE_CURRENCY} |-> 2 * MaxBuy]]>>
    /\ current_user = <<>> /\ current_portfolio = <<>>
    /\ acct = NoCall

\* register(username, password)
Register(username, password, salt, io) ==
    /\ Len(users_file) < MaxUsers
    /\ UNCHANGED <<current_user, current_portfolio>>
    /\ UNCHANGED outsideAccounts
    /\ LET made == NewUser(NextId(users_file), username, password, salt)
           fail(e) == /\ acct' = Called("register", username, password, "", 0, 0, e)
                      /\ UNCHANGED <<users_file, portfolios_file>>
       IN IF \E i \in DOMAIN users_file : users_file[i].username = username
          THEN fail("ValueError")
          ELSE IF PasswordTooShort(password) THEN fail("ValueError")
          ELSE IF made.err /= "" THEN fail(made.err)
          ELSE IF io = "first_fails" THEN fail("OSError")
          ELSE /\ users_file' = Append(users_file, made.user[1])
               /\ IF io = "second_fails"
                  THEN /\ acct' = Called("register", username, password, "", 0, 0, "OSError")
                       /\ UNCHANGED portfolios_file
                  ELSE /\ acct' = Called("register", username, password, "", 0, 0, "")
                       /\ portfolios_file' =
                            Append(portfolios_file,
                                   [user_id |-> made.user[1].user_id,
                                    wallets |-> [c \in {BASE_CURRENCY} |-> 0]])

\* login(username, password)
Login(username, password) ==
    /\ UNCHANGED <<users_file, portfolios_file>>
    /\ UNCHANGED outsideAccounts
    /\ LET i == UserIndex(users_file, username)
           user_entry == users_file[i]
           made == NewUser(user_entry.user_id, user_entry.username, password,
                           user_entry.salt)
           fail(e) == /\ acct' = Called("login", username, password, "", 0, 0, e)
                      /\ UNCHANGED <<current_user, current_portfolio>>
       IN IF i = 0 THEN fail("ValueError")
          ELSE IF made.err /= "" THEN fail(made.err)
          ELSE IF /\ ~VerifyPassword(made.user[1], password)
                  /\ made.user[1].hashed_password /= user_entry.hashed_password
               THEN fail("ValueError")
               ELSE /\ current_user' = made.user
                    /\ current_portfolio' =
                         <<LoadPortfolio(portfolios_file, made.user[1].user_id)>>
                    /\ acct' = Called("login", username, password, "", 0, 0, "")

\* buy(currency, amount)
Buy(currency, amount, got, io) ==
    /\ UNCHANGED <<users_file, current_user>>
    /\ UNCHANGED outsideAccounts
    /\ LET code == Upper(currency)
           said(e) == Called("buy", "", "", currency, amount, got.rate, e)
           fail(e) == /\ acct' = said(e)
                      /\ UNCHANGED <<portfolios_file, current_portfolio>>
       IN IF current_portfolio = <<>> \/ current_user = <<>> THEN fail("ValueError")
          ELSE IF amount <= 0 THEN fail("ValueError")
          ELSE IF code = BASE_CURRENCY THEN fail("ValueError")
          ELSE IF code \notin CurrencyCodes THEN fail("CurrencyNotFoundError")
          ELSE IF got.kind /= "ok" THEN fail(got.kind)
          ELSE LET p == current_portfolio[1]
                   cost_in_base == amount * got.rate
               IN IF BASE_CURRENCY \notin DOMAIN p.wallets
                  THEN fail("InsufficientFundsError")
                  ELSE IF p.wallets[BASE_CURRENCY] < cost_in_base
                  THEN fail("InsufficientFundsError")
                  ELSE IF WalletWithdraw(p.wallets[BASE_CURRENCY], cost_in_base).err /= ""
                  THEN fail(WalletWithdraw(p.wallets[BASE_CURRENCY], cost_in_base).err)
                  ELSE LET paid == [p.wallets EXCEPT ![BASE_CURRENCY] =
                                      WalletWithdraw(@, cost_in_base).balance]
                           held == IF code \in DOMAIN paid THEN paid
                                   ELSE [c \in DOMAIN paid \cup {code} |->
                                           IF c = code THEN 0 ELSE paid[c]]
                           filled == [held EXCEPT ![code] =
                                        WalletDeposit(@, amount).balance]
                           q == [p EXCEPT !.wallets = filled]
                       IN /\ current_portfolio' = <<q>>
                          /\ IF io = "saved"
                             THEN /\ portfolios_file' = SavePortfolio(portfolios_file, q)
                                  /\ acct' = said("")
                             ELSE /\ UNCHANGED portfolios_file
                                  /\ acct' = said("OSError")

AccountsNext ==
    \/ \E username \in Usernames, password \in Passwords, salt \in Salts,
          io \in SaveOutcomes : Register(username, password, salt, io)
    \/ \E username \in Usernames, password \in Passwords : Login(username, password)
    \/ \E currency \in BuyCodes, amount \in 0..MaxBuy, got \in RateOutcomes,
          io \in BuySaveOutcomes : Buy(currency, amount, got, io)

-----------------------------------------------------------------------------
(* Specifications *)

vars == <<resolverVars, storeVars, accountVars, walletVars>>

\* The resolver is not running and there is no rates file.
ResolverOff == file = MissingFile /\ now = 0 /\ entry = file /\ Idle

\* The resolver and the refresh cycle.
Init == ResolverInit /\ StoreInit /\ NoAccounts /\ NoWallet
Next == ResolverNext
Spec == Init /\ [][Next]_vars

\* The store under two threads.
StoreOnlyInit ==
    /\ ResolverOff
    /\ StoreInit
    /\ NoAccounts /\ NoWallet
StoreNext == \E t \in Threads : StoreStep(t)
SpecStore == StoreOnlyInit /\ [][StoreNext]_vars

\* The accounts: register, login, buy.
AccountsOnlyInit == ResolverOff /\ StoreInit /\ AccountsInit /\ NoWallet
SpecAccounts == AccountsOnlyInit /\ [][AccountsNext]_vars

\* One Wallet object.
WalletOnlyInit == ResolverOff /\ StoreInit /\ NoAccounts /\ NoWallet
SpecWallet == WalletOnlyInit /\ [][WalletNext]_vars

-----------------------------------------------------------------------------
(* Properties of the resolver and of the refresh cycle *)

\* The finished call is a get_exchange_rate(from, to) with from /= to.
IsLookupCall == pc = "done" /\ Len(args) = 2 /\ from_currency /= to_currency

\* The file the call started on holds a snapshot with last_refresh.
EntryUsable == entry.status = "ok" /\ entry.snap.last_refresh /= <<>>
EntryHas(k) == k \in DOMAIN entry.snap.pairs
FileHas(k) == k \in DOMAIN file.snap.pairs

\* The stored record the call's pair resolves to: the direct key first.
EntryStored ==
    IF EntryHas(Key(from_currency, to_currency))
    THEN entry.snap.pairs[Key(from_currency, to_currency)]
    ELSE entry.snap.pairs[Key(to_currency, from_currency)]

\* C1 (as claimed): one get_exchange_rate call runs at most one refresh cycle,
\* however many of its trigger conditions fire.
C1_AtMostOneRefresh ==
    Len(args) = 2 => refreshes <= 1

\* C2: on a snapshot with last_refresh that holds the pair (directly or
\* reversed), a call refreshes exactly once, for staleness, when the record's
\* age is greater than the TTL, and otherwise answers from the cache with no
\* refresh.
C2_TtlBoundary ==
    (IsLookupCall /\ EntryUsable
       /\ (EntryHas(Key(from_currency, to_currency))
            \/ EntryHas(Key(to_currency, from_currency))))
    => IF now - EntryStored.updated_at > RATES_TTL_SECONDS
       THEN refreshes = 1 /\ trig = {"ttl"}
       ELSE /\ refreshes = 0 /\ trig = {}
            /\ result.kind = "ok"
            /\ result.value[1].updated_at = EntryStored.updated_at
            /\ file = entry

\* A call on a record aged TTL + 1 seconds has refreshed once.
C2_Witness ==
    /\ IsLookupCall /\ EntryUsable
    /\ EntryHas(Key(from_currency, to_currency))
    /\ now - EntryStored.updated_at = RATES_TTL_SECONDS + 1
    /\ refreshes = 1

\* C3: with A_B stored as (r, t) in a snapshot with last_refresh, B_A not
\* stored and the record not older than the TTL, get_exchange_rate(A, B)
\* returns (r, t) and get_exchange_rate(B, A) returns (1/r, t): the stored
\* record's updated_at, not the current time.
C3_InverseKeepsTimestamp ==
    (IsLookupCall /\ EntryUsable)
    => /\ (/\ EntryHas(Key(from_currency, to_currency))
           /\ ~EntryHas(Key(to_currency, from_currency))
           /\ now - EntryStored.updated_at <= RATES_TTL_SECONDS)
          => result = [kind |-> "ok",
                       value |-> <<[rate |-> EntryStored.rate,
                                    updated_at |-> EntryStored.updated_at]>>]
       /\ (/\ EntryHas(Key(to_currency, from_currency))
           /\ ~EntryHas(Key(from_currency, to_currency))
           /\ now - EntryStored.updated_at <= RATES_TTL_SECONDS)
          => result = [kind |-> "ok",
                       value |-> <<[rate |-> [num |-> EntryStored.rate.den,
                                              den |-> EntryStored.rate.num],
                                    updated_at |-> EntryStored.updated_at]>>]

\* get_exchange_rate(USD, BTC) answered 1/4 from a BTC_USD record written earlier.
C3_Witness ==
    /\ IsLookupCall /\ EntryUsable
    /\ from_currency = "USD" /\ to_currency = "BTC"
    /\ EntryHas("BTC_USD") /\ ~EntryHas("USD_BTC")
    /\ entry.snap.pairs["BTC_USD"].rate = [num |-> 4, den |-> 1]
    /\ entry.snap.pairs["BTC_USD"].updated_at < now
    /\ result.kind = "ok"
    /\ result.value[1].rate = [num |-> 1, den |-> 4]

\* Two codes that differ at most in case.
SameCode(a, b) == a = b \/ {a, b} = {"btc", "BTC"}

\* C4: get_exchange_rate(X, X), the codes compared without regard to case,
\* returns (1.0, now) without loading the cache, without a refresh and with the
\* cache file as it was.
C4_IdentityNoCacheTouch ==
    (pc = "done" /\ Len(args) = 2 /\ SameCode(args[1], args[2]))
    => /\ result = [kind |-> "ok",
                    value |-> <<[rate |-> [num |-> 1, den |-> 1], updated_at |-> now]>>]
       /\ loads = 0 /\ refreshes = 0 /\ lookups = 0
       /\ cycle = <<>>
       /\ file = entry

\* get_exchange_rate("btc", "BTC") has returned and the cache file is still missing.
C4_Witness ==
    /\ pc = "done" /\ args = <<"btc", "BTC">>
    /\ file.status = "missing"
    /\ result.kind = "ok"

\* C5: when the snapshot (with last_refresh) holds neither from_to nor to_from,
\* the call runs one refresh cycle, reloads and looks up once more; if the pair
\* is still absent after the refresh succeeded it fails with RateNotFoundError,
\* with no further refresh or lookup.
C5_MissRetriesOnce ==
    (/\ IsLookupCall /\ EntryUsable
     /\ ~EntryHas(Key(from_currency, to_currency))
     /\ ~EntryHas(Key(to_currency, from_currency)))
    => /\ refreshes = 1 /\ trig = {"miss"}
       /\ result.kind \in {"ok", "RateNotFoundError", "ApiRequestError"}
       /\ IF result.kind = "ApiRequestError"
          THEN lookups = 1 /\ loads = 1 /\ file = entry
          ELSE /\ lookups = 2 /\ loads = 2
               /\ result.kind = "RateNotFoundError"
                    <=> (/\ ~FileHas(Key(from_currency, to_currency))
                         /\ ~FileHas(Key(to_currency, from_currency)))

\* A call for a pair no provider covered: one successful refresh, then RateNotFoundError.
C5_Witness ==
    /\ IsLookupCall /\ EntryUsable
    /\ ~EntryHas(Key(from_currency, to_currency))
    /\ ~EntryHas(Key(to_currency, from_currency))
    /\ cycle /= <<>> /\ ~cycle[1].raised
    /\ result.kind = "RateNotFoundError"
    /\ refreshes = 1 /\ lookups = 2

\* The clients of a cycle that answered with at least one observation.
Answered(c) ==
    {n \in ClientNames : c.outs[n].ok /\ DOMAIN c.outs[n].obs /= {}}
\* The clients a cycle ran.
Ran(c) == {Clients(c.source)[i] : i \in 1..Len(Clients(c.source))}

\* C6: a refresh cycle in which no source delivered an observation raises to
\* its caller and leaves the cache file exactly as it was, last_refresh
\* included, also when the cache already holds pairs.
C6_AllFailLeavesCache ==
    (cycle /= <<>> /\ Ran(cycle[1]) \cap Answered(cycle[1]) = {})
    => /\ cycle[1].raised
       /\ file = cycle[1].before
       /\ result.kind \in {"ApiRequestError", "update_failed"}

\* Both sources failed on a cache that held pairs.
C6_Witness ==
    /\ cycle /= <<>>
    /\ \A n \in ClientNames : ~cycle[1].outs[n].ok
    /\ cycle[1].before.status = "ok"
    /\ DOMAIN cycle[1].before.snap.pairs /= {}
    /\ cycle[1].before.snap.last_refresh /= <<>>
    /\ cycle[1].raised

\* C7: in a cycle over all sources, when one source fails and another answers
\* with at least one observation, update_rates does not raise and every
\* observation of the answering source is in the saved snapshot, whichever of
\* the two comes first.
C7_PartialFailureNotFatal ==
    (cycle /= <<>> /\ cycle[1].source \notin {"coingecko", "exchangerate"})
    => \A good \in ClientNames, bad \in ClientNames :
         (/\ ~cycle[1].outs[bad].ok
          /\ cycle[1].outs[good].ok
          /\ DOMAIN cycle[1].outs[good].obs /= {})
         => /\ ~cycle[1].raised
            /\ file.status = "ok"
            /\ result.kind \notin {"ApiRequestError", "update_failed"}
            /\ \A k \in DOMAIN cycle[1].outs[good].obs :
                 /\ k \in DOMAIN file.snap.pairs
                 /\ file.snap.pairs[k] =
                      [rate |-> [num |-> cycle[1].outs[good].obs[k], den |-> 1],
                       updated_at |-> now]

\* The first source failed, the second delivered EUR_USD, and the cycle was saved.
C7_Witness ==
    /\ cycle /= <<>> /\ cycle[1].source = "none"
    /\ ~cycle[1].outs["coingecko"].ok
    /\ cycle[1].outs["exchangerate"].ok
    /\ "EUR_USD" \in DOMAIN cycle[1].outs["exchangerate"].obs
    /\ ~cycle[1].raised
    /\ FileHas("EUR_USD")

\* C11: when a refresh forced inside get_exchange_rate fails, the call raises
\* ApiRequestError to its caller and returns no record, neither the cached
\* stale one nor any other; a call that returned without any refresh returned a
\* record whose age is at most the TTL.
C11_FailuresEscalate ==
    (pc = "done" /\ Len(args) = 2)
    => /\ (cycle /= <<>> /\ cycle[1].raised)
          => result = [kind |-> "ApiRequestError", value |-> <<>>]
       /\ (result.kind = "ok" /\ refreshes = 0)
          => now - result.value[1].updated_at <= RATES_TTL_SECONDS

\* The refresh forced by a stale BTC_USD record failed and the call raised,
\* although the cache held the stale record.
C11_Witness ==
    /\ IsLookupCall /\ EntryUsable
    /\ EntryHas(Key(from_currency, to_currency))
    /\ now - EntryStored.updated_at > RATES_TTL_SECONDS
    /\ trig = {"ttl"}
    /\ cycle /= <<>> /\ cycle[1].raised
    /\ result.kind = "ApiRequestError"

\* The file the call started on is missing, malformed, empty or has no
\* last_refresh.
EntryUnusable == entry.status /= "ok" \/ entry.snap.last_refresh = <<>>

\* C12: a get_exchange_rate(from, to) call with from /= to that starts on an
\* empty, malformed or last_refresh-less snapshot runs a refresh cycle and
\* reloads before its first lookup, and ends with a record or with a typed
\* error: it does not crash and does not look the pair up in the snapshot it
\* started on.
C12_UnusableForcesRefresh ==
    (Len(args) = 2 /\ from_currency /= to_currency /\ EntryUnusable)
    => /\ lookups >= 1 => ("empty" \in trig /\ refreshes >= 1 /\ loads >= 2)
       /\ pc = "done"
          => /\ "empty" \in trig
             /\ result.kind \in {"ok", "RateNotFoundError", "ApiRequestError"}
             /\ (result.kind = "ApiRequestError" /\ refreshes = 1) => lookups = 0

\* A call that started on a malformed file refreshed, reloaded and answered.
C12_Witness ==
    /\ IsLookupCall
    /\ entry.status = "corrupt"
    /\ "empty" \in trig /\ loads >= 2 /\ lookups >= 1
    /\ result.kind = "ok"

\* C13: without a source filter the crypto-market client is queried first and
\* the fiat-rate client second, and the observations are merged in that order:
\* for a pair key that both report in one cycle, the snapshot the cycle saved
\* holds the fiat-rate client's value, stamped with the time of the cycle.
C13_LaterSourceWins ==
    (/\ cycle /= <<>>
     /\ cycle[1].source \notin {"coingecko", "exchangerate"}
     /\ cycle[1].outs["coingecko"].ok
     /\ cycle[1].outs["exchangerate"].ok)
    => \A k \in DOMAIN cycle[1].outs["coingecko"].obs
                \cap DOMAIN cycle[1].outs["exchangerate"].obs :
         /\ ~cycle[1].raised
         /\ FileHas(k)
         /\ file.snap.pairs[k] =
              [rate |-> [num |-> cycle[1].outs["exchangerate"].obs[k], den |-> 1],
               updated_at |-> now]

\* The two sources disagreed on BTC_USD (2 against 4) and 4 was saved.
C13_Witness ==
    /\ cycle /= <<>> /\ cycle[1].source = "none"
    /\ cycle[1].outs["coingecko"].ok /\ cycle[1].outs["exchangerate"].ok
    /\ "BTC_USD" \in DOMAIN cycle[1].outs["coingecko"].obs
    /\ "BTC_USD" \in DOMAIN cycle[1].outs["exchangerate"].obs
    /\ cycle[1].outs["coingecko"].obs["BTC_USD"] = 2
    /\ cycle[1].outs["exchangerate"].obs["BTC_USD"] = 4
    /\ FileHas("BTC_USD")
    /\ file.snap.pairs["BTC_USD"].rate = [num |-> 4, den |-> 1]

\* The pair keys observed in a cycle: those of the clients it ran that answered.
CycleObserved(c) ==
    UNION {DOMAIN c.outs[n].obs : n \in {m \in Ran(c) : c.outs[m].ok}}

\* C14: a refresh cycle that succeeded only added or overwrote the pair keys
\* observed in it: every pair the snapshot held before and no source of the
\* cycle reported (a pair of a source the filter excluded included) is in the
\* saved snapshot with the rate and updated_at it had, and the saved snapshot
\* holds no key beyond the old and the observed ones.
C14_UnobservedPairsKept ==
    (cycle /= <<>> /\ ~cycle[1].raised)
    => /\ \A k \in DOMAIN cycle[1].before.snap.pairs \ CycleObserved(cycle[1]) :
            FileHas(k) /\ file.snap.pairs[k] = cycle[1].before.snap.pairs[k]
       /\ DOMAIN file.snap.pairs =
            DOMAIN cycle[1].before.snap.pairs \cup CycleObserved(cycle[1])

\* A cycle filtered to the crypto-market client overwrote BTC_USD and left the
\* older EUR_USD record of the fiat-rate client as it was.
C14_Witness ==
    /\ cycle /= <<>> /\ cycle[1].source = "coingecko" /\ ~cycle[1].raised
    /\ "EUR_USD" \in DOMAIN cycle[1].before.snap.pairs
    /\ cycle[1].before.snap.pairs["EUR_USD"].updated_at < now
    /\ CycleObserved(cycle[1]) = {"BTC_USD"}
    /\ FileHas("EUR_USD")
    /\ file.snap.pairs["EUR_USD"] = cycle[1].before.snap.pairs["EUR_USD"]
    /\ file.snap.pairs["BTC_USD"].updated_at = now

\* C15 (as claimed): update_rates(source) runs its cycle over the sources the
\* filter asks for: "coingecko" the crypto-market client alone, "exchangerate"
\* the fiat-rate client alone, no filter both in their order, and a filter that
\* names no configured source none at all; the cache file after the call is
\* what a cycle over exactly those sources leaves.
C15_FilterSelectsSources ==
    cycle /= <<>>
    => file = RunUpdate(IF cycle[1].source = "coingecko" THEN <<"coingecko">>
                        ELSE IF cycle[1].source = "exchangerate" THEN <<"exchangerate">>
                        ELSE IF cycle[1].source = "none"
                             THEN <<"coingecko", "exchangerate">>
                             ELSE <<>>,
                        cycle[1].before, now, cycle[1].outs).file

-----------------------------------------------------------------------------
(* Properties of the accounts and of the wallet *)

\* C16 (as claimed): login(username, password) sets _current_user and
\* _current_portfolio only if the users file holds a record of that username
\* and the password, hashed with the record's salt, equals the record's
\* hashed_password; with an unknown username or a wrong password it raises
\* ValueError and leaves both as they were.
C16_LoginChecksPassword ==
    acct.op = "login"
    => LET i == UserIndex(acct.before.users_file, acct.username)
           known == i /= 0
           right == /\ known
                    /\ HashPassword(acct.password, acct.before.users_file[i].salt)
                         = acct.before.users_file[i].hashed_password
       IN IF right
          THEN acct.err = "" /\ current_user /= <<>> /\ current_portfolio /= <<>>
          ELSE /\ acct.err = "ValueError"
               /\ current_user = acct.before.current_user
               /\ current_portfolio = acct.before.current_portfolio

\* What a buy that returned did to the wallets: the base wallet pays
\* amount * rate, the bought currency's wallet (created if absent) gains amount,
\* no other wallet changes, and the portfolio is in the file.
BuyApplied ==
    LET code == Upper(acct.currency)
        old == acct.before.current_portfolio[1].wallets
        new == current_portfolio[1].wallets
    IN /\ current_portfolio /= <<>>
       /\ DOMAIN new = DOMAIN old \cup {code}
       /\ new[BASE_CURRENCY] = old[BASE_CURRENCY] - acct.amount * acct.rate
       /\ new[code] = (IF code \in DOMAIN old THEN old[code] ELSE 0) + acct.amount
       /\ \A c \in DOMAIN old \ {BASE_CURRENCY, code} : new[c] = old[c]
       /\ PortfolioIndex(portfolios_file, current_portfolio[1].user_id) /= 0
       /\ LoadPortfolio(portfolios_file, current_portfolio[1].user_id).wallets = new

\* C17 (as claimed): buy(currency, amount) is all-or-nothing on the portfolio:
\* a buy that returned applied exactly its purchase, and a buy that failed, for
\* whatever reason, changed no wallet balance, created no wallet and did not
\* write the portfolios file.
C17_BuyAllOrNothing ==
    acct.op = "buy"
    => IF acct.err = ""
       THEN BuyApplied
       ELSE /\ current_portfolio = acct.before.current_portfolio
            /\ portfolios_file = acct.before.portfolios_file

\* The error a Wallet operation on balance `before` is to end with.
WalletRefusal(op, amount, before) ==
    CASE op = "deposit" -> IF amount <= 0 THEN "ValueError" ELSE ""
      [] op = "withdraw" -> IF amount <= 0 THEN "ValueError"
                            ELSE IF amount > before THEN "InsufficientFundsError"
                            ELSE ""
      [] OTHER -> IF amount < 0 THEN "ValueError" ELSE ""

\* C18: after any sequence of deposit, withdraw and balance-set operations the
\* balance of a Wallet is >= 0; a withdraw of more than the balance fails with
\* InsufficientFundsError, a non-positive deposit or withdraw amount and a
\* negative balance assignment fail with ValueError, every failed operation
\* leaves the balance as it was, and the others add, subtract or set it.
C18_WalletNeverNegative ==
    /\ wallet >= 0
    /\ wop.op /= ""
       => /\ wop.err = WalletRefusal(wop.op, wop.amount, wop.before)
          /\ wop.err /= "" => wallet = wop.before
          /\ wop.err = ""
             => wallet = CASE wop.op = "deposit" -> wop.before + wop.amount
                           [] wop.op = "withdraw" -> wop.before - wop.amount
                           [] OTHER -> wop.amount

\* A withdraw of more than a positive balance was refused and the balance kept.
C18_Witness ==
    /\ wop.op = "withdraw"
    /\ wop.before > 0 /\ wop.amount > wop.before
    /\ wop.err = "InsufficientFundsError"
    /\ wallet = wop.before

\* C19 (as claimed): after any sequence of register calls the users file holds
\* no two records with the same username and no two with the same user_id; a
\* register that returned appended one user record, with the id next_id gives,
\* and one portfolio record with that id; a register refused for a duplicate
\* username, a short password or an empty username wrote nothing.
C19_RegisterKeepsUsersUnique ==
    /\ \A i \in DOMAIN users_file, j \in DOMAIN users_file :
         (users_file[i].username = users_file[j].username
            \/ users_file[i].user_id = users_file[j].user_id) => i = j
    /\ (acct.op = "register" /\ acct.err = "")
       => /\ Len(users_file) = Len(acct.before.users_file) + 1
          /\ SubSeq(users_file, 1, Len(users_file) - 1) = acct.before.users_file
          /\ users_file[Len(users_file)].user_id = NextId(acct.before.users_file)
          /\ Len(portfolios_file) = Len(acct.before.portfolios_file) + 1
          /\ SubSeq(portfolios_file, 1, Len(portfolios_file) - 1)
               = acct.before.portfolios_file
          /\ portfolios_file[Len(portfolios_file)].user_id
               = users_file[Len(users_file)].user_id
    /\ (acct.op = "register" /\ acct.err = "ValueError")
       => /\ users_file = acct.before.users_file
          /\ portfolios_file = acct.before.portfolios_file

-----------------------------------------------------------------------------
(* Properties of the store *)

\* C8 (as claimed): the executions of DatabaseManager.load / save by different
\* threads are serialized: while one thread's save has the file open (truncated,
\* not yet closed), no other thread reads the file and no other thread's save
\* has it open.
C8_StoreSerialized ==
    \A t \in Threads, u \in Threads :
        (t /= u /\ th[u].pc = "write") => th[t].pc \notin {"read", "write"}

\* C9 (as claimed): the file is never partially written: whenever it exists,
\* also in the middle of a save and after a write that failed, it holds a
\* complete document.
C9_NeverPartial ==
    disk.exists => Parse(disk.text).kind = "ok"

\* C10 (as claimed): DatabaseManager.load on a path with no file creates the
\* file and returns an empty snapshot; it does not end with a not-found error.
C10_StoreLoadReturnsEmpty ==
    \A t \in Threads :
        (th[t].op = "load_json" /\ th[t].creating /\ th[t].pc \in {"raised", "done"})
        => th[t].res.kind \in {"ok", "OSError"}

\* C10 (amended): load_json never fails with a not-found error: on a path with
\* no file, DatabaseManager.load creates the file and raises FileNotFoundError,
\* which load_json turns into the empty list; once the file was so created, a
\* load_json of it, with no save_json called in between, returns the empty list
\* again.
C10_LoadJsonNeverNotFound ==
    \A t \in Threads :
        (th[t].op = "load_json" /\ th[t].pc = "done")
        => /\ th[t].res.kind /= "FileNotFoundError"
           /\ (th[t].creating /\ th[t].res.kind /= "OSError")
              => /\ th[t].res = [kind |-> "ok", value |-> <<<<>>>>]
                 /\ disk.exists
           /\ pristine
              => /\ ~th[t].creating
                 /\ th[t].res = [kind |-> "ok", value |-> <<<<>>>>]
                 /\ disk = [exists |-> TRUE, text |-> <<[k |-> "[]", v |-> 0]>>]

\* A second load_json of a file that a first load_json created has returned [].
C10_Witness ==
    /\ pristine
    /\ th[1].op = "load_json" /\ th[1].pc = "done" /\ ~th[1].creating
    /\ th[1].res = [kind |-> "ok", value |-> <<<<>>>>]

\* C20: under any interleaving of threads that construct DatabaseManager()
\* at most one instance is ever created, and every construction returns that
\* one instance.
C20_Singleton ==
    /\ constructed <= 1
    /\ instance = constructed
    /\ \A t \in Threads :
         th[t].pc \in {"load", "read", "save", "write", "raised", "done"}
         => th[t].inst = 1

\* Two threads are past their constructions, which overlapped in time: both
\* hold the one instance, after the second waited for the lock.
C20_Witness ==
    /\ constructed = 1
    /\ th[1].pc = "load" /\ th[2].pc = "save"
    /\ th[1].inst = 1 /\ th[2].inst = 1
    /\ ~th[1].solo /\ ~th[2].solo

====
